---- MODULE Spec2Model ----
(***************************************************************************)
(* A model of the two demo programs of the repository:                     *)
(*   animations/src/main.rs  rows animated from the per-frame delta time   *)
(*   threaded/src/main.rs    rows animated from the absolute frame time,   *)
(*                           fetched by a worker thread over a channel     *)
(*                                                                         *)
(* Time is counted in ticks of 0.1 s.  A progress value p of a row whose   *)
(* animation_time is d is stored as the integer numerator p * d * d, so    *)
(* that quadratic_out is computed exactly; 1.0 is the numerator d * d.     *)
(* An Option<T> is a sequence of at most one element.                      *)
(***************************************************************************)
EXTENDS Integers, Sequences, FiniteSets, TLC

\* ---------------------------------------------------------------- bounds
NumRows == 3
MaxDuration == 3
MaxStagger == 2
MaxDt == 3
MaxTime == 9
AppMaxDt == 2
AppMaxTime == 4
LiveMaxPeriod == 2
LiveMaxTime == 140
ProgMaxPeriod == 2
ProgMaxTime == 125
LongDt == 15
Widths == {1, 2}
Lefts == {0, 1}

\* --------------------------------------------------------------- Option
None == <<>>
Some(x) == <<x>>
is_some(o) == Len(o) = 1
is_none(o) == Len(o) = 0
unwrap(o) == o[1]

\* ------------------------------------------------------ easing and f32
\* egui::emath::easing::quadratic_out(t) = -(t * (t - 2.)), t = n / d,
\* as a numerator over d * d
quadratic_out(n, d) == 0 - (n * (n - 2 * d))

\* (elapsed / animation_time).min(1.0), as a numerator over d
\* faulty variant: the .min(1.0) is left out
min_1_noclamp(e, d) == e

min_1(e, d) == IF e > d THEN d ELSE e

\* the f32 value 1.0 of a progress whose animation_time is d
One(d) == d * d

\* ------------------------------------------------- animations track row
RowDataA(i) == [version |-> <<"GE-Proton9-", i>>, path |-> <<"/home/corrupted/.local/", i>>]

A_new(row_data, duration, delay) ==
    [data |-> row_data,
     start_x |-> None,
     progress |-> 0,
     elapsed |-> 0,
     animation_time |-> duration,
     state |-> IF delay = 0 THEN "Animating" ELSE "Waiting",
     delay |-> delay]

\* faulty variant: elapsed is not reset when the row leaves Waiting
A_update_no_reset(row, dt) ==
    CASE row.state = "Waiting" ->
           LET e == row.elapsed + dt IN
           IF e >= row.delay
             THEN [row |-> [row EXCEPT !.state = "Animating", !.elapsed = e],
                   ret |-> TRUE]
             ELSE [row |-> [row EXCEPT !.elapsed = e], ret |-> FALSE]
      [] row.state = "Animating" ->
           LET e == row.elapsed + dt
               p == quadratic_out(min_1(e, row.animation_time), row.animation_time)
           IN IF p = One(row.animation_time)
                THEN [row |-> [row EXCEPT !.elapsed = e, !.progress = p,
                                          !.state = "Done"],
                      ret |-> FALSE]
                ELSE [row |-> [row EXCEPT !.elapsed = e, !.progress = p],
                      ret |-> TRUE]
      [] row.state = "Done" -> [row |-> row, ret |-> FALSE]

\* AnimatedRow::update(dt) of the animations track: the row after the call
\* and the value returned
A_update(row, dt) ==
    CASE row.state = "Waiting" ->
           LET e == row.elapsed + dt IN
           IF e >= row.delay
             THEN [row |-> [row EXCEPT !.state = "Animating", !.elapsed = 0],
                   ret |-> TRUE]
             ELSE [row |-> [row EXCEPT !.elapsed = e], ret |-> FALSE]
      [] row.state = "Animating" ->
           LET e == row.elapsed + dt
               p == quadratic_out(min_1(e, row.animation_time), row.animation_time)
           IN IF p = One(row.animation_time)
                THEN [row |-> [row EXCEPT !.elapsed = e, !.progress = p,
                                          !.state = "Done"],
                      ret |-> FALSE]
                ELSE [row |-> [row EXCEPT !.elapsed = e, !.progress = p],
                      ret |-> TRUE]
      [] row.state = "Done" -> [row |-> row, ret |-> FALSE]

\* `i as f32 * stagger_delay`, i the 0-based index of enumerate()
A_delay_of(i, stagger_delay) == i * stagger_delay

A_list_new(rows, animation_duration, stagger_delay) ==
    [rows |-> [i \in 1..Len(rows) |->
                 A_new(rows[i], animation_duration,
                       A_delay_of(i - 1, stagger_delay))],
     row_height |-> 60]

\* the per-row part of show that changes the row: start_x, then update
A_show_row(row, resized, width, dt) ==
    LET r1 == IF is_none(row.start_x) \/ resized
                THEN [row EXCEPT !.start_x = Some(width)] ELSE row
    IN A_update(r1, dt)

\* AnimatedRowList::show of the animations track: the list after the call and
\* the value returned (needs_redraw, the OR of the rows' update results)
A_show(list, resized, width, dt) ==
    LET res == [i \in 1..Len(list.rows) |-> A_show_row(list.rows[i], resized, width, dt)]
    IN [list |-> [list EXCEPT !.rows = [i \in 1..Len(list.rows) |-> res[i].row]],
        needs_redraw |-> \E i \in 1..Len(list.rows) : res[i].ret]

\* ---------------------------------------------------- threaded track row
RowData(x) == [version |-> <<"ProtonGE-", x>>, path |-> <<"some/path/", x>>]

T_new(row_data, duration, delay) ==
    [data |-> row_data,
     start_x |-> None,
     start_time |-> None,
     progress |-> 0,
     elapsed |-> 0,
     animation_time |-> duration,
     state |-> IF delay = 0 THEN "Animating" ELSE "Waiting",
     delay |-> delay]

\* faulty variant of the Waiting arm: start_time is not moved to the
\* transition frame
T_waiting_keep_start(row, time) ==
    IF is_some(row.start_time)
      THEN LET e == time - unwrap(row.start_time) IN
           IF e >= row.delay
             THEN [row |-> [row EXCEPT !.state = "Animating", !.elapsed = 0],
                   ret |-> TRUE]
             ELSE [row |-> [row EXCEPT !.elapsed = e], ret |-> FALSE]
      ELSE [row |-> [row EXCEPT !.start_time = Some(time)], ret |-> FALSE]

\* faulty variant of the Waiting arm: the row leaves Waiting one tick early
T_waiting_early(row, time) ==
    IF is_some(row.start_time)
      THEN LET e == time - unwrap(row.start_time) IN
           IF e + 1 >= row.delay
             THEN [row |-> [row EXCEPT !.state = "Animating", !.elapsed = 0,
                                       !.start_time = Some(time)],
                   ret |-> TRUE]
             ELSE [row |-> [row EXCEPT !.elapsed = e], ret |-> FALSE]
      ELSE [row |-> [row EXCEPT !.start_time = Some(time)], ret |-> FALSE]

\* the Waiting arm of update(time)
T_waiting(row, time) ==
    IF is_some(row.start_time)
      THEN LET e == time - unwrap(row.start_time) IN
           IF e >= row.delay
             THEN [row |-> [row EXCEPT !.state = "Animating", !.elapsed = 0,
                                       !.start_time = Some(time)],
                   ret |-> TRUE]
             ELSE [row |-> [row EXCEPT !.elapsed = e], ret |-> FALSE]
      ELSE [row |-> [row EXCEPT !.start_time = Some(time)], ret |-> FALSE]

\* faulty variant of the Animating arm: Done is decided on the progress of the
\* frame before
T_animating_stale_done(row, time) ==
    IF is_some(row.start_time)
      THEN LET e == time - unwrap(row.start_time)
               p == quadratic_out(min_1(e, row.animation_time), row.animation_time)
           IN IF row.progress = One(row.animation_time)
                THEN [row |-> [row EXCEPT !.elapsed = e, !.progress = p,
                                          !.state = "Done"],
                      ret |-> FALSE]
                ELSE [row |-> [row EXCEPT !.elapsed = e, !.progress = p],
                      ret |-> TRUE]
      ELSE [row |-> [row EXCEPT !.start_time = Some(time)], ret |-> TRUE]

\* faulty variant of the Animating arm: the two return values exchanged
T_animating_inverted_ret(row, time) ==
    IF is_some(row.start_time)
      THEN LET e == time - unwrap(row.start_time)
               p == quadratic_out(min_1(e, row.animation_time), row.animation_time)
           IN IF p = One(row.animation_time)
                THEN [row |-> [row EXCEPT !.elapsed = e, !.progress = p,
                                          !.state = "Done"],
                      ret |-> TRUE]
                ELSE [row |-> [row EXCEPT !.elapsed = e, !.progress = p],
                      ret |-> FALSE]
      ELSE [row |-> [row EXCEPT !.start_time = Some(time)], ret |-> TRUE]

\* the Animating arm of update(time)
T_animating(row, time) ==
    IF is_some(row.start_time)
      THEN LET e == time - unwrap(row.start_time)
               p == quadratic_out(min_1(e, row.animation_time), row.animation_time)
           IN IF p = One(row.animation_time)
                THEN [row |-> [row EXCEPT !.elapsed = e, !.progress = p,
                                          !.state = "Done"],
                      ret |-> FALSE]
                ELSE [row |-> [row EXCEPT !.elapsed = e, !.progress = p],
                      ret |-> TRUE]
      ELSE [row |-> [row EXCEPT !.start_time = Some(time)], ret |-> TRUE]

\* faulty variant: a Done row is recomputed like an Animating one
T_update_done_reanimates(row, time) ==
    CASE row.state = "Waiting" -> T_waiting(row, time)
      [] row.state = "Animating" -> T_animating(row, time)
      [] row.state = "Done" -> T_animating(row, time)

\* AnimatedRow::update(time) of the threaded track
T_update(row, time) ==
    CASE row.state = "Waiting" -> T_waiting(row, time)
      [] row.state = "Animating" -> T_animating(row, time)
      [] row.state = "Done" -> [row |-> row, ret |-> FALSE]

\* faulty variant: the index counted from 1
T_delay_of_one_based(i, stagger_delay) == (i + 1) * stagger_delay

\* `i as f32 * stagger_delay`, i the 0-based index of enumerate()
T_delay_of(i, stagger_delay) == i * stagger_delay

T_list_new(rows, animation_duration, stagger_delay) ==
    [rows |-> [i \in 1..Len(rows) |->
                 T_new(rows[i], animation_duration,
                       T_delay_of(i - 1, stagger_delay))],
     row_height |-> 60]

T_show_row(row, resized, width, time) ==
    LET r1 == IF is_none(row.start_x) \/ resized
                THEN [row EXCEPT !.start_x = Some(width)] ELSE row
    IN T_update(r1, time)

\* AnimatedRowList::show of the threaded track (row_shapes is emptied by
\* mem::take before show returns, so it carries nothing between frames)
T_show(list, resized, width, time) ==
    LET res == [i \in 1..Len(list.rows) |-> T_show_row(list.rows[i], resized, width, time)]
    IN [list |-> [list EXCEPT !.rows = [i \in 1..Len(list.rows) |-> res[i].row]],
        needs_redraw |-> \E i \in 1..Len(list.rows) : res[i].ret]

\* ------------------------------------------------ painted geometry
\* faulty variant: start and target exchanged
x_offset_from_target(start_x, target_x, p, d) ==
    target_x * (d * d) + (start_x - target_x) * p

\* `start_x + (target_x - start_x) * row.progress`, as a numerator over d * d
x_offset(start_x, target_x, p, d) ==
    start_x * (d * d) + (target_x - start_x) * p

\* `(255.0 * row.progress) as u8`: truncated, and saturated to 0..=255
alpha_of(p, d) ==
    LET a == (255 * p) \div (d * d)
    IN IF a > 255 THEN 255 ELSE IF a < 0 THEN 0 ELSE a

\* the RectShape pushed for a row after its update: x of its rect, alpha of
\* its fill
row_shape(row, left) ==
    [x |-> x_offset(unwrap(row.start_x), left, row.progress, row.animation_time),
     alpha |-> alpha_of(row.progress, row.animation_time)]

\* the rectangles one call of show paints, given the list it leaves
shapes_of(list, left) == [i \in 1..Len(list.rows) |-> row_shape(list.rows[i], left)]

\* ------------------------------------------------------------- state
VARIABLES
    \* threaded/src/main.rs: struct App
    fetch_thread,   \* Option<JoinHandle>
    poll,           \* bool
    rows,           \* Option<AnimatedRowList>
    last_width,     \* Option<f32>
    chan,           \* the messages sent on sql_sender and not yet received
    \* the worker thread running delayed_fetch_operation
    wpc,            \* "idle" (not spawned), "sleep", "build", "send", "exit", "done"
    sleeps,         \* iterations of the sleep loop still to run
    v,              \* the Vec<RowData> being built
    \* the position of the render thread inside App::update, and its locals
    fpc,            \* "idle" (between frames), "render", "poll", "join"
    resized,
    needs_repaint,
    time,           \* i.time of the current frame
    repaint,        \* what the last finished frame asked of the host
    \* history of the threaded app
    spawned, sent, received,
    shown,          \* what the last render step drew
    had_msg,        \* a message was in the channel when the current frame began
    send_err,       \* the worker's send returned Err
    \* the App value (with the receiver it owns) has not been dropped
    app_alive,
    \* the row lists of the two tracks driven by one frame schedule
    anim,           \* animations/src/main.rs: struct AnimationApp
    tlist,          \* a threaded-track AnimatedRowList
    args,           \* the duration and stagger delay both lists were built with
    now,            \* the time of the last frame
    updated,        \* some frame has run
    first,          \* the time of the first frame
    accum,          \* the sum of the dt passed to the animations track
    a_ret, t_ret,   \* the values show returned in the last frame
    target_x,       \* rect.left() of the rows in the last frame
    a_shapes, t_shapes, \* the rectangles show painted in the last frame
    \* the host's frame schedule: the period between two frames, and the
    \* number of long frames it may still insert
    sched

appvars == <<fetch_thread, poll, rows, last_width, chan, wpc, sleeps, v, fpc,
             resized, needs_repaint, time, repaint, spawned, sent, received, shown,
             had_msg, send_err, app_alive>>
rowvars == <<anim, tlist, args, now, updated, first, accum, a_ret, t_ret,
             target_x, a_shapes, t_shapes>>
vars == <<appvars, rowvars, sched>>

\* ------------------------------------------------- program constants
\* `let count = 5;` one-second sleeps
count == 5
\* `for x in 0..100`
RowCount == 100

\* ------------------------------------------------------ construction
\* App::new
AppNew ==
    /\ fetch_thread = None
    /\ poll = TRUE
    /\ rows = None
    /\ last_width = None
    /\ chan = <<>>
    /\ wpc = "idle"
    /\ sleeps = count
    /\ v = <<>>
    /\ fpc = "idle"
    /\ resized = FALSE
    /\ needs_repaint = FALSE
    /\ time = 0
    /\ repaint = "none"
    /\ spawned = 0
    /\ sent = 0
    /\ received = 0
    /\ shown = "nothing"
    /\ had_msg = FALSE
    /\ send_err = FALSE
    /\ app_alive = TRUE

\* two lists built by AnimatedRowList::new from n rows
RowsNew(n, d, s) ==
    /\ anim = [row_list |-> A_list_new([i \in 1..n |-> RowDataA(i)], d, s),
               last_width |-> None]
    /\ tlist = T_list_new([i \in 1..n |-> RowData(i - 1)], d, s)
    /\ args = [animation_duration |-> d, stagger_delay |-> s]
    /\ now = 0
    /\ updated = FALSE
    /\ first = 0
    /\ accum = 0
    /\ a_ret = FALSE
    /\ t_ret = FALSE
    /\ target_x = 0
    /\ a_shapes = <<>>
    /\ t_shapes = <<>>

\* ------------------------------------------------ the worker thread
\* faulty variant: the sleep loop is skipped
sleep_done_at_once(n) == TRUE

\* `for _ in (0..count).rev()`: no iteration is left
sleep_done(n) == n = 0

\* faulty variant: the loop ends one row early
more_rows_short(x) == x < RowCount - 1

\* `for x in 0..100`: the loop has iterations left
more_rows(x) == x < RowCount

WorkerSleep ==
    /\ wpc = "sleep"
    /\ ~sleep_done(sleeps)
    /\ sleeps' = sleeps - 1
    /\ UNCHANGED <<fetch_thread, poll, rows, last_width, chan, wpc, v, fpc, resized,
                   needs_repaint, time, repaint, spawned, sent, received, shown>>
    /\ UNCHANGED <<had_msg, send_err, app_alive>>
    /\ UNCHANGED <<rowvars, sched>>

WorkerWake ==
    /\ wpc = "sleep"
    /\ sleep_done(sleeps)
    /\ wpc' = "build"
    /\ v' = <<>>
    /\ UNCHANGED <<fetch_thread, poll, rows, last_width, chan, sleeps, fpc, resized,
                   needs_repaint, time, repaint, spawned, sent, received, shown>>
    /\ UNCHANGED <<had_msg, send_err, app_alive>>
    /\ UNCHANGED <<rowvars, sched>>

WorkerPush ==
    /\ wpc = "build"
    /\ more_rows(Len(v))
    /\ v' = Append(v, RowData(Len(v)))
    /\ UNCHANGED <<fetch_thread, poll, rows, last_width, chan, wpc, sleeps, fpc, resized,
                   needs_repaint, time, repaint, spawned, sent, received, shown>>
    /\ UNCHANGED <<had_msg, send_err, app_alive>>
    /\ UNCHANGED <<rowvars, sched>>

\* sender.send(v) is Ok: the receiver App owns is alive; v is moved into the
\* channel
WorkerSend ==
    /\ wpc = "build"
    /\ ~more_rows(Len(v))
    /\ app_alive
    /\ chan' = Append(chan, v)
    /\ v' = <<>>
    /\ sent' = sent + 1
    /\ wpc' = "exit"
    /\ UNCHANGED <<fetch_thread, poll, rows, last_width, sleeps, fpc, resized,
                   needs_repaint, time, repaint, spawned, received, shown>>
    /\ UNCHANGED <<had_msg, send_err, app_alive>>
    /\ UNCHANGED <<rowvars, sched>>

\* sender.send(v) is Err: every receiver has been dropped; the error (and v
\* inside it) is discarded by the empty match arm
WorkerSendErr ==
    /\ wpc = "build"
    /\ ~more_rows(Len(v))
    /\ ~app_alive
    /\ v' = <<>>
    /\ send_err' = TRUE
    /\ wpc' = "exit"
    /\ UNCHANGED <<fetch_thread, poll, rows, last_width, chan, sleeps, fpc, resized,
                   needs_repaint, time, repaint, spawned, sent, received, shown,
                   had_msg, app_alive>>
    /\ UNCHANGED <<rowvars, sched>>

\* the closure returns and the thread terminates
WorkerExit ==
    /\ wpc = "exit"
    /\ wpc' = "done"
    /\ UNCHANGED <<fetch_thread, poll, rows, last_width, chan, sleeps, v, fpc, resized,
                   needs_repaint, time, repaint, spawned, sent, received, shown>>
    /\ UNCHANGED <<had_msg, send_err, app_alive>>
    /\ UNCHANGED <<rowvars, sched>>

\* ------------------------------------------------ App::update, in steps
\* faulty variant: poll is not consulted
should_spawn_no_poll(ft, p) == is_none(ft)

\* `self.fetch_thread.is_none() && self.poll`
should_spawn(ft, p) == is_none(ft) /\ p

\* the width check and the spawn
FrameStep(w, t) ==
    /\ fpc = "idle"
    /\ app_alive
    /\ time' = t
    /\ resized' = (is_none(last_width) \/ unwrap(last_width) /= w)
    /\ last_width' = IF resized' THEN Some(w) ELSE last_width
    /\ needs_repaint' = FALSE
    /\ IF should_spawn(fetch_thread, poll)
         THEN /\ fetch_thread' = Some("handle")
              /\ wpc' = "sleep"
              /\ sleeps' = count
              /\ spawned' = spawned + 1
         ELSE UNCHANGED <<fetch_thread, wpc, sleeps, spawned>>
    /\ fpc' = "render"
    /\ UNCHANGED <<poll, rows, chan, v, repaint, sent, received, shown>>
    /\ had_msg' = (chan /= <<>>)
    /\ UNCHANGED <<send_err, app_alive>>
    /\ UNCHANGED <<rowvars, sched>>

\* a frame begins, at any time within the bound
FrameBegin(w, dt) ==
    /\ time + dt <= AppMaxTime
    /\ FrameStep(w, time + dt)

\* the host runs a frame only if it is the first one or the last frame asked
\* for a repaint; frames come one period apart.  The rows read only
\* differences of i.time taken after their list exists, so the clock is
\* held until then.
LiveFrameBegin(w) ==
    /\ (shown = "nothing" \/ repaint /= "none")
    /\ LET t == IF is_some(rows) THEN time + sched.period ELSE time
       IN /\ t <= LiveMaxTime
          /\ FrameStep(w, t)

\* the row list, or the "Fetching rows" label
FrameRender ==
    /\ fpc = "render"
    /\ IF is_some(rows)
         THEN LET r == T_show(unwrap(rows), resized, unwrap(last_width), time) IN
              /\ rows' = Some(r.list)
              /\ needs_repaint' = r.needs_redraw
              /\ shown' = "list"
         ELSE /\ shown' = "placeholder"
              /\ UNCHANGED <<rows, needs_repaint>>
    /\ fpc' = "poll"
    /\ UNCHANGED <<fetch_thread, poll, last_width, chan, wpc, sleeps, v, resized, time,
                   repaint, spawned, sent, received>>
    /\ UNCHANGED <<had_msg, send_err, app_alive>>
    /\ UNCHANGED <<rowvars, sched>>

\* faulty variant: the blocking recv() in place of try_recv()
recv_blocks(ch) == ch /= <<>>

\* try_recv() returns at once, whether or not a message is in the channel
try_recv_returns(ch) == TRUE

\* faulty variant: the handle is dropped on Err, so that the next frame spawns
\* a new worker
on_recv_err_retry(ft) == None

\* the `Err(_) => {}` arm: fetch_thread after it
on_recv_err(ft) == ft

\* faulty variant: the received Vec is discarded
on_recv_ok_dropped(t) == None

\* the `Ok(t)` arm: `self.rows = Some(AnimatedRowList::new(t, 1.0, 0.1))`,
\* 1.0 s = 10 ticks, 0.1 s = 1 tick
on_recv_ok(t) == Some(T_list_new(t, 10, 1))

\* faulty variant: poll is left set
poll_after_recv_kept == TRUE

\* the `Ok(t)` arm: `self.poll = false`
poll_after_recv == FALSE

\* faulty variant: request_repaint_after is left out
end_of_poll_no_after(nr) == IF nr THEN "now" ELSE "none"

\* what a frame that entered `if self.poll` asks of the host:
\* request_repaint_after(100 ms), and request_repaint if needs_repaint
end_of_poll(nr) == IF nr THEN "now" ELSE "after"

\* `if self.poll` is false: only the final `if needs_repaint`
FrameNoPoll ==
    /\ fpc = "poll"
    /\ ~poll
    /\ repaint' = IF needs_repaint THEN "now" ELSE "none"
    /\ fpc' = "idle"
    /\ UNCHANGED <<fetch_thread, poll, rows, last_width, chan, wpc, sleeps, v, resized,
                   needs_repaint, time, spawned, sent, received, shown>>
    /\ UNCHANGED <<had_msg, send_err, app_alive>>
    /\ UNCHANGED <<rowvars, sched>>

\* try_recv() is Err(_): nothing in the channel
FramePollEmpty ==
    /\ fpc = "poll"
    /\ poll
    /\ chan = <<>>
    /\ try_recv_returns(chan)
    /\ fetch_thread' = on_recv_err(fetch_thread)
    /\ repaint' = end_of_poll(needs_repaint)
    /\ fpc' = "idle"
    /\ UNCHANGED <<poll, rows, last_width, chan, wpc, sleeps, v, resized,
                   needs_repaint, time, spawned, sent, received, shown>>
    /\ UNCHANGED <<had_msg, send_err, app_alive>>
    /\ UNCHANGED <<rowvars, sched>>

\* try_recv() is Ok(t): the list is built and installed, poll is cleared and
\* the handle is taken; the frame then waits in join()
FramePollOk ==
    /\ fpc = "poll"
    /\ poll
    /\ chan /= <<>>
    /\ rows' = on_recv_ok(Head(chan))
    /\ chan' = Tail(chan)
    /\ received' = received + 1
    /\ poll' = poll_after_recv
    /\ fetch_thread' = None
    /\ IF is_some(fetch_thread)
         THEN /\ fpc' = "join"
              /\ UNCHANGED repaint
         ELSE /\ fpc' = "idle"
              /\ repaint' = end_of_poll(needs_repaint)
    /\ UNCHANGED <<last_width, wpc, sleeps, v, resized, needs_repaint, time, spawned,
                   sent, shown>>
    /\ UNCHANGED <<had_msg, send_err, app_alive>>
    /\ UNCHANGED <<rowvars, sched>>

\* handle.join() returns once the worker has terminated; then
\* request_repaint_after and the final `if needs_repaint`
FrameJoin ==
    /\ fpc = "join"
    /\ wpc = "done"
    /\ repaint' = end_of_poll(needs_repaint)
    /\ fpc' = "idle"
    /\ UNCHANGED <<fetch_thread, poll, rows, last_width, chan, wpc, sleeps, v, resized,
                   needs_repaint, time, spawned, sent, received, shown>>
    /\ UNCHANGED <<had_msg, send_err, app_alive>>
    /\ UNCHANGED <<rowvars, sched>>

\* run_native returns between two frames (the window is closed) and the App,
\* with its sender and receiver, is dropped; a spawned worker runs on
AppDrop ==
    /\ fpc = "idle"
    /\ app_alive
    /\ app_alive' = FALSE
    /\ UNCHANGED <<fetch_thread, poll, rows, last_width, chan, wpc, sleeps, v, fpc,
                   resized, needs_repaint, time, repaint, spawned, sent, received,
                   shown, had_msg, send_err>>
    /\ UNCHANGED <<rowvars, sched>>

\* ------------------------------- one frame of both tracks' row lists
\* AnimationApp::update with delta time dt, and the threaded show at the
\* resulting time, on a screen of width w
RowStep(w, left, dt) ==
    /\ LET rs == (is_none(anim.last_width) \/ unwrap(anim.last_width) /= w)
           a == A_show(anim.row_list, rs, w, dt)
           t == T_show(tlist, rs, w, now + dt)
       IN /\ anim' = [row_list |-> a.list,
                      last_width |-> IF rs THEN Some(w) ELSE anim.last_width]
          /\ tlist' = t.list
          /\ a_ret' = a.needs_redraw
          /\ t_ret' = t.needs_redraw
          /\ a_shapes' = shapes_of(a.list, left)
          /\ t_shapes' = shapes_of(t.list, left)
    /\ target_x' = left
    /\ now' = now + dt
    /\ first' = IF updated THEN first ELSE now + dt
    /\ updated' = TRUE
    /\ accum' = accum + dt
    /\ UNCHANGED args
    /\ UNCHANGED appvars

\* a frame of the bounded schedule
RowFrame(w, left, dt) ==
    /\ now + dt <= MaxTime
    /\ RowStep(w, left, dt)
    /\ UNCHANGED sched

\* a frame of the two programs' own lists: after the host's period, at once
\* again (dt = 0), or after one of the long frames the host may insert
ProgFrame(w, left, dt) ==
    /\ dt \in {0, sched.period}
    /\ now + dt <= ProgMaxTime
    /\ RowStep(w, left, dt)
    /\ UNCHANGED sched

ProgLongFrame(w, left) ==
    /\ sched.long_left > 0
    /\ now + LongDt <= ProgMaxTime
    /\ RowStep(w, left, LongDt)
    /\ sched' = [sched EXCEPT !.long_left = sched.long_left - 1]

\* ------------------------------------------------------ specifications
\* the threaded app: the render loop and the worker thread
NoSched == [period |-> 0, long_left |-> 0]

Init ==
    /\ AppNew
    /\ RowsNew(0, 10, 1)
    /\ sched = NoSched

Next ==
    \/ \E w \in Widths, dt \in 0..AppMaxDt : FrameBegin(w, dt)
    \/ FrameRender
    \/ FrameNoPoll
    \/ FramePollEmpty
    \/ FramePollOk
    \/ FrameJoin
    \/ WorkerSleep
    \/ WorkerWake
    \/ WorkerPush
    \/ WorkerSend
    \/ WorkerSendErr
    \/ WorkerExit
    \/ AppDrop

Spec == Init /\ [][Next]_vars

\* the row lists of both tracks, for any duration and stagger delay
InitRows ==
    /\ AppNew
    /\ \E d \in 1..MaxDuration, s \in 0..MaxStagger : RowsNew(NumRows, d, s)
    /\ sched = NoSched

NextRows == \E w \in Widths, left \in Lefts, dt \in 0..MaxDt : RowFrame(w, left, dt)

SpecRows == InitRows /\ [][NextRows]_vars

\* the threaded app under a host that runs every requested frame, with a
\* fairly scheduled worker and an App that is not dropped
InitLive ==
    /\ AppNew
    /\ RowsNew(0, 10, 1)
    /\ \E p \in 1..LiveMaxPeriod : sched = [period |-> p, long_left |-> 0]

LiveFrame ==
    \/ \E w \in Widths : LiveFrameBegin(w)
    \/ FrameRender
    \/ FrameNoPoll
    \/ FramePollEmpty
    \/ FramePollOk
    \/ FrameJoin

LiveWorker ==
    \/ WorkerSleep
    \/ WorkerWake
    \/ WorkerPush
    \/ WorkerSend
    \/ WorkerExit

NextLive == LiveFrame \/ LiveWorker

SpecLive == InitLive /\ [][NextLive]_vars /\ WF_vars(LiveFrame) /\ WF_vars(LiveWorker)

\* the lists the two programs build: AnimationApp::new (10 rows, 3.0 s, 0.1 s)
\* and App::update on receipt (100 rows, 1.0 s, 0.1 s)
InitPrograms ==
    /\ AppNew
    /\ anim = [row_list |-> A_list_new([i \in 1..10 |-> RowDataA(i)], 30, 1),
               last_width |-> None]
    /\ tlist = unwrap(on_recv_ok([i \in 1..RowCount |-> RowData(i - 1)]))
    /\ args = [animation_duration |-> 10, stagger_delay |-> 1]
    /\ now = 0
    /\ updated = FALSE
    /\ first = 0
    /\ accum = 0
    /\ a_ret = FALSE
    /\ t_ret = FALSE
    /\ target_x = 0
    /\ a_shapes = <<>>
    /\ t_shapes = <<>>
    /\ \E p \in 1..ProgMaxPeriod : sched = [period |-> p, long_left |-> 1]

\* the panel keeps one width and one left edge: the lifecycle does not read them
NextPrograms ==
    \/ \E dt \in 0..ProgMaxPeriod : ProgFrame(1, 0, dt)
    \/ ProgLongFrame(1, 0)

SpecPrograms == InitPrograms /\ [][NextPrograms]_vars

\* ============================================================== claims
\* the rows of the two lists, and the elapsed time each track measures from
\* the moment its rows started being updated
TRows == tlist.rows
ARows == anim.row_list.rows
TElapsed == IF updated THEN now - first ELSE 0
AElapsed == accum

\* the three parts of the fetch scenario
C1_BeforeLatency ==
    sleeps > 0 => /\ is_none(rows)
                  /\ chan = <<>>
                  /\ received = 0
                  /\ shown /= "list"

C1_FirstPollAfterSend ==
    (fpc = "poll" /\ fpc' /= "poll" /\ sent >= 1 /\ received = 0)
       => /\ is_some(rows')
          /\ Len(unwrap(rows').rows) = 100
          /\ received' = 1

C1_NeverPlaceholderAgain ==
    is_some(rows) => /\ is_some(rows')
                     /\ (fpc = "render" /\ fpc' = "poll" => shown' = "list")

\* C1: in the threaded app, while the worker still has sleeps to run nothing
\* has been received and the placeholder is what is drawn; the poll that
\* finds the worker's message installs a list of exactly 100 rows; and once
\* the list is installed rows never goes back to None and every later render
\* step draws the list, not the placeholder.
C1_FetchScenario ==
    /\ [](C1_BeforeLatency)
    /\ [][C1_FirstPollAfterSend /\ C1_NeverPlaceholderAgain]_vars

C1_Witness ==
    /\ is_some(rows)
    /\ Len(unwrap(rows).rows) = 100
    /\ received = 1
    /\ shown = "list"
    /\ sleeps = 0

\* the counts of the handoff, and the steps that may change them
C2_AtMostOnce ==
    /\ spawned <= 1
    /\ sent <= 1
    /\ received <= 1
    /\ Len(chan) <= 1

C2_GuardedSpawn ==
    /\ spawned' /= spawned => (is_none(fetch_thread) /\ poll)
    /\ received >= 1 => /\ spawned' = spawned
                        /\ sent' = sent
                        /\ received' = received
                        /\ chan' = chan

\* C2: at most one worker is ever spawned and at most one message is ever
\* sent; a worker is spawned only by a frame that finds fetch_thread None and
\* poll true; after the delivery nothing is spawned, sent or received.
C2_OneShotFetch == [](C2_AtMostOnce) /\ [][C2_GuardedSpawn]_vars

C2_Witness ==
    /\ spawned = 1
    /\ sent = 1
    /\ received = 1
    /\ is_none(fetch_thread)
    /\ ~poll
    /\ fpc = "render"
    /\ wpc = "done"

\* the payload delayed_fetch_operation builds
CompletePayload(data) ==
    /\ Len(data) = 100
    /\ \A i \in 1..100 :
          /\ data[i].version = <<"ProtonGE-", i - 1>>
          /\ data[i].path = <<"some/path/", i - 1>>

\* C3: rows is None or holds the complete payload, the 100 rows ProtonGE-0 ..
\* ProtonGE-99 in order; the same holds of every message in the channel.
C3_CompleteOrNone ==
    /\ is_some(rows) =>
          CompletePayload([i \in 1..Len(unwrap(rows).rows) |-> unwrap(rows).rows[i].data])
    /\ \A m \in 1..Len(chan) : CompletePayload(chan[m])

C3_Witness ==
    /\ is_some(rows)
    /\ unwrap(rows).rows[100].data = RowData(99)
    /\ unwrap(rows).rows[1].data = RowData(0)
    /\ fpc = "join"

\* C4: while the elapsed time is strictly less than a row's delay, the row is
\* Waiting with progress 0 (both tracks).
C4_WaitingBeforeDelay ==
    /\ \A i \in 1..Len(TRows) :
          TElapsed < TRows[i].delay
             => (TRows[i].state = "Waiting" /\ TRows[i].progress = 0)
    /\ \A i \in 1..Len(ARows) :
          AElapsed < ARows[i].delay
             => (ARows[i].state = "Waiting" /\ ARows[i].progress = 0)

C4_Witness ==
    /\ updated
    /\ \E i \in 1..Len(TRows) :
          /\ 0 < TElapsed
          /\ TElapsed < TRows[i].delay
          /\ TRows[i].state = "Waiting"
          /\ 0 < AElapsed
          /\ AElapsed < ARows[i].delay
          /\ ARows[i].state = "Waiting"

\* C5: whenever the elapsed time e lies in [delay, delay + duration], the
\* row's progress is quadratic_out(clamp((e - delay) / duration, 0, 1))
\* (both tracks).  That the value is non-decreasing in e is part of C10.
C5_ProgressFollowsElapsed ==
    /\ \A i \in 1..Len(TRows) :
          (updated /\ TRows[i].delay <= TElapsed
                   /\ TElapsed <= TRows[i].delay + TRows[i].animation_time)
             => TRows[i].progress =
                  quadratic_out(min_1(TElapsed - TRows[i].delay, TRows[i].animation_time),
                                TRows[i].animation_time)
    /\ \A i \in 1..Len(ARows) :
          (updated /\ ARows[i].delay <= AElapsed
                   /\ AElapsed <= ARows[i].delay + ARows[i].animation_time)
             => ARows[i].progress =
                  quadratic_out(min_1(AElapsed - ARows[i].delay, ARows[i].animation_time),
                                ARows[i].animation_time)

\* Done at the end of the animation, and Done for good
C6_DoneAtEnd ==
    /\ \A i \in 1..Len(TRows) :
          (updated /\ TElapsed >= TRows[i].delay + TRows[i].animation_time)
             => (TRows[i].state = "Done"
                 /\ TRows[i].progress = One(TRows[i].animation_time))
    /\ \A i \in 1..Len(ARows) :
          (updated /\ AElapsed >= ARows[i].delay + ARows[i].animation_time)
             => (ARows[i].state = "Done"
                 /\ ARows[i].progress = One(ARows[i].animation_time))

C6_DoneStays ==
    /\ \A i \in 1..Len(TRows) :
          TRows[i].state = "Done"
             => (TRows'[i].state = "Done"
                 /\ TRows'[i].progress = One(TRows[i].animation_time))
    /\ \A i \in 1..Len(ARows) :
          ARows[i].state = "Done"
             => (ARows'[i].state = "Done"
                 /\ ARows'[i].progress = One(ARows[i].animation_time))

\* C6: whenever the elapsed time is at least delay + duration, the row is Done
\* with progress 1, and a Done row stays Done with progress 1 (both tracks).
C6_DoneAfterDuration == [](C6_DoneAtEnd) /\ [][C6_DoneStays]_vars

\* C7: after a frame, show has returned true exactly when some row of the
\* list is not Done (both tracks).
C7_ShowReportsNonTerminal ==
    updated =>
       /\ t_ret = (\E i \in 1..Len(TRows) : TRows[i].state /= "Done")
       /\ a_ret = (\E i \in 1..Len(ARows) : ARows[i].state /= "Done")

\* C8: row i (counted from 0) of a list built with stagger delay s has delay
\* i * s, and a row has left Waiting only if the row before it has.
C8_StaggerOrder ==
    /\ \A i \in 1..Len(TRows) : TRows[i].delay = (i - 1) * args.stagger_delay
    /\ \A i \in 1..Len(ARows) : ARows[i].delay = (i - 1) * args.stagger_delay
    /\ \A i \in 1..(Len(TRows) - 1) :
          TRows[i + 1].state /= "Waiting" => TRows[i].state /= "Waiting"
    /\ \A i \in 1..(Len(ARows) - 1) :
          ARows[i + 1].state /= "Waiting" => ARows[i].state /= "Waiting"

C8_Witness ==
    /\ args.stagger_delay > 0
    /\ \E i \in 2..(Len(TRows) - 1) :
          /\ TRows[i].state = "Animating"
          /\ TRows[i + 1].state = "Waiting"
          /\ ARows[i].state = "Animating"
          /\ ARows[i + 1].state = "Waiting"

\* C9: in every state reached by an update with timestamp `now`, calling the
\* threaded update again with the same timestamp changes nothing of the row.
C9_SameTimestampIdempotent ==
    updated => \A i \in 1..Len(TRows) : T_update(TRows[i], now).row = TRows[i]

C9_Witness ==
    /\ updated
    /\ now > first
    /\ \E i \in 1..Len(TRows) :
          /\ TRows[i].delay > 0
          /\ TRows[i].state = "Animating"
          /\ TRows[i].start_time = Some(now)
    /\ \E i \in 1..Len(TRows) :
          /\ TRows[i].state = "Animating"
          /\ TRows[i].progress > 0

\* the range of progress, and its change over one frame
C10_InRange ==
    /\ \A i \in 1..Len(TRows) :
          0 <= TRows[i].progress /\ TRows[i].progress <= One(TRows[i].animation_time)
    /\ \A i \in 1..Len(ARows) :
          0 <= ARows[i].progress /\ ARows[i].progress <= One(ARows[i].animation_time)

C10_NonDecreasing ==
    /\ \A i \in 1..Len(TRows) : TRows'[i].progress >= TRows[i].progress
    /\ \A i \in 1..Len(ARows) : ARows'[i].progress >= ARows[i].progress

\* C10: progress is always within [0, 1] and never decreases from one frame
\* to the next (both tracks).
C10_ProgressMonotone == [](C10_InRange) /\ [][C10_NonDecreasing]_vars

C10_Witness ==
    /\ \E i, j \in 1..Len(TRows) :
          /\ 0 < TRows[i].progress
          /\ TRows[i].progress < One(TRows[i].animation_time)
          /\ TRows[j].state = "Done"
    /\ \E i, j \in 1..Len(ARows) :
          /\ 0 < ARows[i].progress
          /\ ARows[i].progress < One(ARows[i].animation_time)
          /\ ARows[j].state = "Done"

\* C11: the render thread is never stuck in its poll step (try_recv returns
\* whether or not a message is there), and it is in join() only after it has
\* received the worker's message, when the worker is past its send and has
\* nothing left but to return.
C11_NoBlocking ==
    /\ fpc = "poll" => ENABLED (FrameNoPoll \/ FramePollEmpty \/ FramePollOk)
    /\ fpc = "join" => /\ sent >= 1
                       /\ received >= 1
                       /\ wpc \in {"exit", "done"}

C11_Witness ==
    /\ fpc = "join"
    /\ wpc = "exit"
    /\ shown = "placeholder"

\* the two failures, and the states a failure leaves behind
C12_RecvErr ==
    (fpc = "poll" /\ poll /\ chan = <<>> /\ fpc' /= "poll")
       => /\ rows' = rows
          /\ poll' = poll
          /\ fetch_thread' = fetch_thread
          /\ spawned' = spawned
          /\ wpc' = wpc

C12_SendErr ==
    (wpc = "build" /\ wpc' /= "build" /\ ~app_alive)
       => /\ send_err'
          /\ wpc' = "exit"
          /\ chan' = chan
          /\ sent' = sent
          /\ spawned' = spawned
          /\ rows' = rows
          /\ poll' = poll
          /\ fetch_thread' = fetch_thread

C12_NoErrorState ==
    /\ send_err => (wpc \in {"exit", "done"} /\ sent = 0 /\ chan = <<>>)
    /\ wpc \in {"idle", "sleep", "build", "exit", "done"}
    /\ fpc \in {"idle", "render", "poll", "join"}
    /\ spawned <= 1

\* C12: a poll step whose try_recv is Err leaves rows, poll and fetch_thread
\* as they were and spawns nothing; a worker whose send is Err only returns;
\* neither thread has a position other than those of the normal run.
C12_FailuresSwallowed ==
    /\ [](C12_NoErrorState)
    /\ [][C12_RecvErr /\ C12_SendErr]_vars

C12_Witness ==
    /\ send_err
    /\ wpc = "done"
    /\ repaint = "after"
    /\ is_some(fetch_thread)

\* C13 as stated: a frame that began with the payload in the channel has drawn
\* the row list when it reaches its poll step.
C13_ListRenderedSameFrame ==
    (had_msg /\ fpc = "poll") => shown = "list"

\* C13 as amended: a frame that began with the payload in the channel draws
\* the placeholder, and installs the list in its poll step, after the render
\* step.
C13_PlaceholderThenInstall ==
    had_msg =>
       /\ fpc = "render" => (is_none(rows) /\ chan /= <<>>)
       /\ fpc = "poll" => (is_none(rows) /\ chan /= <<>> /\ shown = "placeholder")
       /\ fpc \in {"join", "idle"} => (is_some(rows) /\ shown = "placeholder")

C13_Witness ==
    /\ had_msg
    /\ fpc = "idle"
    /\ is_some(rows)
    /\ shown = "placeholder"
    /\ app_alive

\* the bookkeeping at the end of a frame, and its change over one step
C20_EndOfFrame ==
    (fpc = "idle" /\ shown /= "nothing")
       => /\ poll <=> is_none(rows)
          /\ is_some(fetch_thread) <=> poll

C20_PollStaysFalse ==
    ~poll => (~poll' /\ is_none(fetch_thread) /\ is_none(fetch_thread'))

\* C20: at the end of every frame poll is true exactly when rows is None and
\* fetch_thread is Some exactly when poll is true; once poll is false it
\* stays false and fetch_thread stays None.
C20_FetchBookkeeping == [](C20_EndOfFrame) /\ [][C20_PollStaysFalse]_vars

C20_Witness ==
    /\ fpc = "idle"
    /\ ~poll
    /\ is_none(fetch_thread)
    /\ shown = "list"
    /\ repaint = "now"

\* the steps of the lifecycle
Forward(a, b) ==
    \/ a = b
    \/ (a = "Waiting" /\ b = "Animating")
    \/ (a = "Animating" /\ b = "Done")

C14_ForwardSteps ==
    /\ \A i \in 1..Len(TRows) :
          /\ Forward(TRows[i].state, TRows'[i].state)
          /\ TRows[i].state = "Done"
               => /\ TRows'[i].progress = TRows[i].progress
                  /\ TRows'[i].elapsed = TRows[i].elapsed
                  /\ TRows'[i].start_time = TRows[i].start_time
    /\ \A i \in 1..Len(ARows) :
          /\ Forward(ARows[i].state, ARows'[i].state)
          /\ ARows[i].state = "Done"
               => /\ ARows'[i].progress = ARows[i].progress
                  /\ ARows'[i].elapsed = ARows[i].elapsed

C14_DoneAbsorbing ==
    /\ \A i \in 1..Len(TRows) :
          TRows[i].state = "Done"
             => \A t \in now..(MaxTime + MaxDt) :
                   T_update(TRows[i], t) = [row |-> TRows[i], ret |-> FALSE]
    /\ \A i \in 1..Len(ARows) :
          ARows[i].state = "Done"
             => \A dt \in 0..MaxDt :
                   A_update(ARows[i], dt) = [row |-> ARows[i], ret |-> FALSE]

\* C14: over one frame a row's state stays or goes Waiting -> Animating or
\* Animating -> Done, nothing else; an update of a Done row returns false and
\* changes none of state, progress, elapsed, start time (both tracks).
C14_LifecycleForward == [](C14_DoneAbsorbing) /\ [][C14_ForwardSteps]_vars

C14_Witness ==
    /\ now > first
    /\ \E i, j, k \in 1..Len(TRows) :
          /\ TRows[i].state = "Done"
          /\ TRows[i].elapsed > TRows[i].animation_time
          /\ TRows[j].state = "Animating"
          /\ TRows[k].state = "Waiting"
          /\ ARows[i].state = "Done"

\* C15: Waiting rows have progress 0, a row is Done exactly when its progress
\* is 1, and an Animating row has 0 <= progress < 1 (both tracks).
C15_StateMatchesProgress ==
    /\ \A i \in 1..Len(TRows) :
          /\ TRows[i].state = "Waiting" => TRows[i].progress = 0
          /\ TRows[i].state = "Done" <=> TRows[i].progress = TRows[i].animation_time * TRows[i].animation_time
          /\ TRows[i].state = "Animating"
               => (0 <= TRows[i].progress
                   /\ TRows[i].progress < TRows[i].animation_time * TRows[i].animation_time)
    /\ \A i \in 1..Len(ARows) :
          /\ ARows[i].state = "Waiting" => ARows[i].progress = 0
          /\ ARows[i].state = "Done" <=> ARows[i].progress = ARows[i].animation_time * ARows[i].animation_time
          /\ ARows[i].state = "Animating"
               => (0 <= ARows[i].progress
                   /\ ARows[i].progress < ARows[i].animation_time * ARows[i].animation_time)

C15_Witness ==
    /\ updated
    /\ \E i, j, k \in 1..Len(TRows) :
          /\ TRows[i].state = "Done"
          /\ TRows[j].state = "Animating"
          /\ TRows[j].progress > 0
          /\ TRows[k].state = "Waiting"
          /\ ARows[j].state = "Animating"
          /\ ARows[j].progress > 0

\* the rows of the two tracks agree
TracksAgree ==
    \A i \in 1..Len(TRows) :
       /\ ARows[i].state = TRows[i].state
       /\ ARows[i].progress = TRows[i].progress

\* C16 as stated: after every frame of a common schedule each row has the
\* same state and the same progress in both tracks.
C16_TracksAgree == updated => TracksAgree

\* C16 as amended: the tracks agree after every frame of a common schedule
\* whose first frame has dt = 0, that is, as long as the dt accumulated by
\* the animations track is the time since the threaded track's first
\* timestamp.
C16_TracksAgreeFromZeroDt ==
    (accum = TElapsed)
       => /\ TracksAgree
          /\ \A i \in 1..Len(TRows) : ARows[i].elapsed = TRows[i].elapsed

C16_Witness ==
    /\ updated
    /\ accum = TElapsed
    /\ accum > 0
    /\ \E i, j \in 1..Len(TRows) :
          /\ TRows[i].state = "Done"
          /\ TRows[j].state = "Animating"
          /\ TRows[j].progress > 0
          /\ TRows[j].delay > 0

\* the geometry of one painted row, with d2 the numerator of 1.0
GeometryFollows(row, shape) ==
    LET d2 == row.animation_time * row.animation_time
        sx == unwrap(row.start_x)
    IN /\ shape.x = sx * d2 + (target_x - sx) * row.progress
       /\ shape.alpha \in 0..255
       /\ shape.alpha * d2 <= 255 * row.progress
       /\ 255 * row.progress < (shape.alpha + 1) * d2
       /\ row.progress = 0 => (shape.x = sx * d2 /\ shape.alpha = 0)
       /\ row.state = "Waiting" => (shape.x = sx * d2 /\ shape.alpha = 0)
       /\ row.state = "Done" => (shape.x = target_x * d2 /\ shape.alpha = 255)

\* C17: the rectangle painted for a row is at start_x + (target_x - start_x)
\* * progress with alpha 255 * progress truncated to 0..255: at start_x and
\* transparent for progress 0, at target_x with alpha 255 for a Done row
\* (both tracks).
C17_GeometryLinear ==
    updated =>
       /\ \A i \in 1..Len(TRows) : GeometryFollows(TRows[i], t_shapes[i])
       /\ \A i \in 1..Len(ARows) : GeometryFollows(ARows[i], a_shapes[i])

C17_Witness ==
    /\ updated
    /\ target_x = 1
    /\ \E i, j, k \in 1..Len(TRows) :
          /\ TRows[i].state = "Done"
          /\ TRows[i].start_x = Some(2)
          /\ t_shapes[i].alpha = 255
          /\ TRows[j].state = "Animating"
          /\ t_shapes[j].alpha > 0
          /\ t_shapes[j].alpha < 255
          /\ TRows[k].state = "Waiting"
          /\ a_shapes[j].alpha > 0
          /\ a_shapes[j].alpha < 255

\* every row of the installed list is Done
AllDone ==
    /\ is_some(rows)
    /\ \A i \in 1..Len(unwrap(rows).rows) : unwrap(rows).rows[i].state = "Done"

\* a frame has ended without asking for a repaint
EndedQuiet == fpc = "idle" /\ shown /= "nothing" /\ repaint = "none"

\* a frame that entered `if self.poll` (the frame that receives among them)
\* ends with a repaint requested
C18_PollingFrameSchedules ==
    (fpc' = "idle" /\ fpc /= "idle" /\ (fpc = "join" \/ poll))
       => repaint' \in {"now", "after"}

\* C18: under a host that runs every requested frame and a fair worker, the
\* 100-row list is eventually installed, the frame that receives it asks for
\* another frame, every row eventually is Done, and a frame ends without a
\* repaint request only when all rows are Done.
C18_EventuallyAllDone ==
    /\ <>(is_some(rows) /\ Len(unwrap(rows).rows) = 100)
    /\ <>AllDone
    /\ [](EndedQuiet => AllDone)
    /\ [][C18_PollingFrameSchedules]_vars

C18_Witness ==
    /\ AllDone
    /\ EndedQuiet
    /\ unwrap(rows).rows[100].elapsed >= 10
    /\ wpc = "done"

\* C19: with the lists the two programs build, after every frame that leaves
\* a row Waiting or Animating show has returned true.
C19_NoStall ==
    updated =>
       /\ (\E i \in 1..Len(TRows) : TRows[i].state /= "Done") => t_ret
       /\ (\E i \in 1..Len(ARows) : ARows[i].state /= "Done") => a_ret

C19_Witness ==
    /\ Len(TRows) = 100
    /\ Len(ARows) = 10
    /\ t_ret
    /\ TRows[1].state = "Done"
    /\ TRows[100].state = "Waiting"
    /\ \A i \in 1..Len(ARows) : ARows[i].state = "Done"
    /\ ~a_ret

====
